---- MODULE Spec2Model ----
(***************************************************************************)
(* Model of the hrp step engine: the sub-testcase step                     *)
(* (StepTestCaseWithOptionalArgs.Run, extendWithTestCase) executed by     *)
(* SessionRunners, the request step (runStepRequest, requestBuilder,        *)
(* decodeResponseBody) and the step builders (NewStep and its methods).     *)
(*                                                                         *)
(* Specifications:                                                         *)
(*   Spec            one SessionRunner executing its testcase's steps       *)
(*   SpecConcurrent  two sibling SessionRunners, each with one sub-testcase *)
(*                   step referencing the same loaded TestCase              *)
(*   SpecRequest     one execution of runStepRequest, statement by          *)
(*                   statement, on GET steps with hooks, extractors and     *)
(*                   validators                                             *)
(*   SpecBuild       one execution of runStepRequest on POST steps with     *)
(*                   params, headers, cookies and a body                    *)
(*   SpecBuilder     the calls made on the builders of one step             *)
(***************************************************************************)
EXTENDS Integers, Sequences, FiniteSets, TLC

VARIABLES
    \* ---- session level (Spec, SpecConcurrent)
    heap,              \* the loaded TestCase objects: ref -> [Config, TestSteps]
    heap0,             \* the TestCase objects as loaded (history, never written)
    failfast,          \* hrpRunner.failfast
    testSteps,         \* runner -> the TSteps of the testcase it executes
    idx,               \* runner -> index of the step its Start loop is at
    phase,             \* runner -> position inside Start / Run
    sessionVariables,  \* runner -> r.sessionVariables
    summary,           \* runner -> r.summary
    run,               \* runner -> locals of the sub-testcase Run in progress
    child,             \* runner -> the child SessionRunner of that Run
    lastResult,        \* runner -> what the last step.Run returned
    \* ---- request level (SpecRequest)
    rq,                \* the state of one runStepRequest execution
    \* ---- builder level (SpecBuilder)
    bld                \* the TStep under construction and the builders held

vars == <<heap, heap0, failfast, testSteps, idx, phase, sessionVariables,
          summary, run, child, lastResult, rq, bld>>

sessionVars == <<heap, heap0, failfast, testSteps, idx, phase, sessionVariables,
                 summary, run, child, lastResult>>

-----------------------------------------------------------------------------
(* Bounds *)

\* longest testcase a parent SessionRunner executes
MaxSteps == 2

\* longest list of setup hooks, and of teardown hooks, of a request step
MaxHooks == 2

\* most calls made on the builders of one step
MaxCalls == 4

-----------------------------------------------------------------------------
(* Values *)

Runners == {1, 2}

\* reference to the one loaded TestCase the sub-testcase steps call
TC == "tc"
Refs == {TC}
\* TStep.TestCase of a step that is no sub-testcase step
NilRef == "nil"

\* error == nil
NoErr == ""
ErrMergeVariables == "parse variables failed"
ErrValidation == "validation failed"
ErrDoRequest == "do request failed"
ErrFailfast == "abort running due to failfast setting"

\* a variable value the parser cannot resolve (reference to an unknown name)
Unresolved == "$undefined"

\* values a response document can hold at a path
ExtractValues == {"e1", "e2"}

\* the value of a path the response document lacks
Null == "null"

\* what an extractor can bind a name to
ExtractedValues == ExtractValues \cup {Null}

EmptyMap == [n \in {} |-> ""]

Range(s) == {s[i] : i \in DOMAIN s}

stepTypeTestCase == "testcase"
stepTypeRequest == "request"

-----------------------------------------------------------------------------
(* Merge helpers *)

\* merge two variables mappings, the first has the higher priority
mergeVariables(variables, overriddenVariables) ==
    [n \in (DOMAIN variables) \cup (DOMAIN overriddenVariables) |->
        IF n \in DOMAIN variables THEN variables[n] ELSE overriddenVariables[n]]

\* the values of overriddenSlice that slice lacks, in their order
RECURSIVE Missing(_, _)
Missing(slice, overriddenSlice) ==
    IF overriddenSlice = <<>> THEN <<>>
    ELSE IF Head(overriddenSlice) \in Range(slice)
         THEN Missing(slice, Tail(overriddenSlice))
         ELSE <<Head(overriddenSlice)>>
                \o Missing(Append(slice, Head(overriddenSlice)), Tail(overriddenSlice))

\* union of two name lists, the first one's order kept
mergeSlices(slice, overriddenSlice) == slice \o Missing(slice, overriddenSlice)

-----------------------------------------------------------------------------
(* Descriptors *)

\* a request step of a parent testcase: GET with one extractor
ParentRequestStep ==
    [Name |-> "get", Variables |-> EmptyMap, Export |-> <<>>,
     TestCase |-> NilRef, Extract |-> {"tok"}]

\* sub-testcase steps: NewStep(name).WithVariables(v).CallRefCase(tc).Export(e...)
TestCaseSteps ==
    { [Name |-> "s1", Variables |-> EmptyMap, Export |-> <<"tok">>,
       TestCase |-> TC, Extract |-> {}],
      [Name |-> "", Variables |-> [tok |-> "s"], Export |-> <<>>,
       TestCase |-> TC, Extract |-> {}],
      [Name |-> "s2", Variables |-> [tmp |-> Unresolved], Export |-> <<"tok">>,
       TestCase |-> TC, Extract |-> {}],
      [Name |-> "s2", Variables |-> [base |-> "s"], Export |-> <<"tmp", "tok">>,
       TestCase |-> TC, Extract |-> {}] }

StepChoices == {ParentRequestStep} \cup TestCaseSteps

\* the request steps of the referenced testcase
ChildTestSteps ==
    << [Name |-> "login", Variables |-> EmptyMap, Export |-> <<>>,
        TestCase |-> NilRef, Extract |-> {"tok"}],
       [Name |-> "fetch", Variables |-> EmptyMap, Export |-> <<>>,
        TestCase |-> NilRef, Extract |-> {"tmp"}] >>

\* the referenced testcase's Config as loaded
LoadedConfigs ==
    { [Name |-> "child", Variables |-> v, Export |-> e] :
        v \in {EmptyMap, [tok |-> "c"]}, e \in {<<>>, <<"tmp">>} }

\* the Config of the testcase a parent SessionRunner executes
ParentConfig == [Name |-> "parent", Variables |-> [base |-> "c0"], Export |-> <<>>]

SeqsUpTo(S, n) == UNION { [1..k -> S] : k \in 1..n }

IsTestCaseStep(step) == step.TestCase # NilRef

-----------------------------------------------------------------------------
(* SessionRunner *)

NewSummary ==
    [Success |-> TRUE, Records |-> <<>>,
     Stat |-> [Total |-> 0, Successes |-> 0, Failures |-> 0]]

\* session variables, overlaid by case variables, overlaid by step variables;
\* then every value parsed with the resulting scope
MergeStepVariables(session, caseVariables, stepVariables) ==
    LET merged == mergeVariables(stepVariables,
                                 mergeVariables(caseVariables, session))
    IN  [vars |-> merged,
         err  |-> IF \E n \in DOMAIN merged : merged[n] = Unresolved
                  THEN ErrMergeVariables ELSE NoErr]

\* the session's final scope: what a step without variables would see
FinalScope(sr) == mergeVariables(sr.config.Variables, sr.sessionVariables)

\* GetSummary: the summary with InOut.ExportVars, the exported names of the
\* config that the final scope binds
GetSummary(sr) ==
    LET scope == FinalScope(sr)
    IN  [Success |-> sr.summary.Success,
         Records |-> sr.summary.Records,
         Stat |-> sr.summary.Stat,
         ExportVars |-> [n \in Range(sr.config.Export) \cap DOMAIN scope |-> scope[n]]]

\* what runStepRequest can return for a request step, by the response
\* received: success, a failed validation, or an error before the extraction
RequestOutcomes(step) ==
    { [Name |-> step.Name, StepType |-> stepTypeRequest, Success |-> TRUE,
       Attachment |-> "", ExportVars |-> m, Data |-> <<>>, err |-> NoErr]
        : m \in [step.Extract -> ExtractedValues] }
    \cup
    { [Name |-> step.Name, StepType |-> stepTypeRequest, Success |-> FALSE,
       Attachment |-> ErrValidation, ExportVars |-> m, Data |-> <<>>,
       err |-> ErrValidation]
        : m \in [step.Extract -> ExtractedValues] }
    \cup
    { [Name |-> step.Name, StepType |-> stepTypeRequest, Success |-> FALSE,
       Attachment |-> ErrDoRequest, ExportVars |-> EmptyMap, Data |-> <<>>,
       err |-> ErrDoRequest] }

\* Start's bookkeeping for one returned StepResult: the record and the
\* statistics of a non-container step, the Success flag of the summary
RecordResult(sum, res) ==
    LET counted ==
            IF res.StepType = stepTypeTestCase THEN sum
            ELSE [sum EXCEPT
                    !.Records = Append(@, [StepType |-> res.StepType,
                                           Success |-> res.Success]),
                    !.Stat.Total = @ + 1,
                    !.Stat.Successes = IF res.Success THEN @ + 1 ELSE @,
                    !.Stat.Failures = IF res.Success THEN @ ELSE @ + 1]
    IN  IF res.Success THEN counted ELSE [counted EXCEPT !.Success = FALSE]

\* Start aborts after a failed step only under failfast
Aborts(res) == failfast /\ res.err # NoErr

-----------------------------------------------------------------------------
(* Sub-testcase step *)

\* copier.Copy(copiedStep, s.step), called without the DeepCopy option: a new
\* TStep whose fields are assigned from the step's; the TestCase field, an
\* interface holding a *TestCase, is assigned as it is, so the copy references
\* the same TestCase object
CopyStep(step) ==
    [Name |-> step.Name, Variables |-> step.Variables, Export |-> step.Export,
     TestCase |-> step.TestCase, Extract |-> step.Extract]

\* extendWithTestCase with the config's variables taking priority
extendWithTestCaseConfigWins(testStep, config) ==
    [Name |-> IF testStep.Name # "" THEN testStep.Name ELSE config.Name,
     Variables |-> mergeVariables(config.Variables, testStep.Variables),
     Export |-> mergeSlices(testStep.Export, config.Export)]

\* extend referenced testcase with teststep: the Config written through
\* overriddenTestCase
extendWithTestCase(testStep, config) ==
    [Name |-> IF testStep.Name # "" THEN testStep.Name ELSE config.Name,
     Variables |-> mergeVariables(testStep.Variables, config.Variables),
     Export |-> mergeSlices(testStep.Export, config.Export)]

\* the step extendWithTestCase is called with
ExtendingStep(step, copiedStep) == step

\* the StepResult Run starts from
NewTestCaseResult(step) ==
    [Name |-> step.Name, StepType |-> stepTypeTestCase, Success |-> FALSE,
     Attachment |-> "", ExportVars |-> EmptyMap, Data |-> <<>>, err |-> NoErr]

\* Run's return when MergeStepVariables fails
MergeFailedResult(step, err) == [NewTestCaseResult(step) EXCEPT !.err = err]

\* Run's return when sessionRunner.Start() fails
StartFailedResult(step, err) ==
    [NewTestCaseResult(step) EXCEPT !.Attachment = err, !.err = err]

\* StartedResult exporting only the names of the step's own export list
StartedResultStepExportsOnly(step, childSummary) ==
    [NewTestCaseResult(step) EXCEPT
        !.Data = childSummary.Records,
        !.ExportVars = [n \in DOMAIN childSummary.ExportVars \cap Range(step.Export)
                            |-> childSummary.ExportVars[n]],
        !.Success = TRUE]

\* Run's return when the child session ended without error
StartedResult(step, childSummary) ==
    [NewTestCaseResult(step) EXCEPT
        !.Data = childSummary.Records,
        !.ExportVars = childSummary.ExportVars,
        !.Success = TRUE]

\* merge testcase summary
MergeSummary(sum, childSummary) ==
    [sum EXCEPT
        !.Records = @ \o childSummary.Records,
        !.Stat.Total = @ + childSummary.Stat.Total,
        !.Stat.Successes = @ + childSummary.Stat.Successes,
        !.Stat.Failures = @ + childSummary.Stat.Failures]

\* update extracted variables
UpdateSessionVariables(session, exportVars) == mergeVariables(exportVars, session)

-----------------------------------------------------------------------------
(* Actions of a SessionRunner p *)

CurrentStep(p) == testSteps[p][idx[p]]

AtStep(p) == phase[p] = "loop" /\ idx[p] <= Len(testSteps[p])

\* Start's loop after step.Run returned res, having left the runner's summary
\* and session variables as sum and session
AfterRun(p, res, sum, session) ==
    /\ lastResult' = [lastResult EXCEPT ![p] = <<[res |-> res, at |-> idx[p]]>>]
    /\ summary' = [summary EXCEPT ![p] = RecordResult(sum, res)]
    /\ sessionVariables' =
            [sessionVariables EXCEPT ![p] = UpdateSessionVariables(session, res.ExportVars)]
    /\ phase' = [phase EXCEPT ![p] = IF Aborts(res) THEN "aborted" ELSE "loop"]
    /\ idx' = [idx EXCEPT ![p] = IF Aborts(res) THEN @ ELSE @ + 1]

\* a request step of the parent testcase, run to its end
RunRequestStep(p) ==
    /\ AtStep(p)
    /\ ~IsTestCaseStep(CurrentStep(p))
    /\ \E res \in RequestOutcomes(CurrentStep(p)) :
            AfterRun(p, res, summary[p], sessionVariables[p])
    /\ UNCHANGED <<heap, heap0, failfast, testSteps, run, child, rq, bld>>

\* Run of a sub-testcase step up to MergeStepVariables failing
RunTestCaseMergeFailed(p) ==
    /\ AtStep(p)
    /\ IsTestCaseStep(CurrentStep(p))
    /\ LET step == CurrentStep(p)
           m == MergeStepVariables(sessionVariables[p], ParentConfig.Variables,
                                   step.Variables)
       IN  /\ m.err # NoErr
           /\ AfterRun(p, MergeFailedResult(step, m.err), summary[p],
                       sessionVariables[p])
    /\ UNCHANGED <<heap, heap0, failfast, testSteps, run, child, rq, bld>>

\* Run of a sub-testcase step up to extendWithTestCase
RunTestCasePrepare(p) ==
    /\ AtStep(p)
    /\ IsTestCaseStep(CurrentStep(p))
    /\ LET step == CurrentStep(p)
           m == MergeStepVariables(sessionVariables[p], ParentConfig.Variables,
                                   step.Variables)
           copiedStep == [CopyStep(step) EXCEPT !.Variables = m.vars]
           copiedTestCase == copiedStep.TestCase
       IN  /\ m.err = NoErr
           /\ heap' = [heap EXCEPT ![copiedTestCase].Config =
                            extendWithTestCase(ExtendingStep(step, copiedStep), @)]
           /\ run' = [run EXCEPT ![p] =
                            <<[stepVariables |-> m.vars,
                               copiedStep |-> copiedStep,
                               copiedTestCase |-> copiedTestCase,
                               before |-> heap[copiedTestCase].Config]>>]
    /\ phase' = [phase EXCEPT ![p] = "prepared"]
    /\ UNCHANGED <<heap0, failfast, testSteps, idx, sessionVariables, summary,
                   child, lastResult, rq, bld>>

\* r.hrpRunner.NewSessionRunner(copiedTestCase)
NewSessionRunner(p) ==
    /\ phase[p] = "prepared"
    /\ LET testCase == heap[run[p][1].copiedTestCase]
       IN  child' = [child EXCEPT ![p] =
                        <<[config |-> testCase.Config,
                           testSteps |-> testCase.TestSteps,
                           idx |-> 1,
                           sessionVariables |-> EmptyMap,
                           summary |-> NewSummary,
                           err |-> NoErr]>>]
    /\ phase' = [phase EXCEPT ![p] = "child"]
    /\ UNCHANGED <<heap, heap0, failfast, testSteps, idx, sessionVariables,
                   summary, run, lastResult, rq, bld>>

ChildRunning(p) ==
    /\ phase[p] = "child"
    /\ child[p][1].err = NoErr
    /\ child[p][1].idx <= Len(child[p][1].testSteps)

\* one iteration of the child session's Start loop
ChildStep(p) ==
    /\ ChildRunning(p)
    /\ LET c == child[p][1]
       IN  \E res \in RequestOutcomes(c.testSteps[c.idx]) :
             child' = [child EXCEPT ![p] =
                <<[c EXCEPT
                    !.summary = RecordResult(@, res),
                    !.sessionVariables = UpdateSessionVariables(@, res.ExportVars),
                    !.err = IF Aborts(res) THEN ErrFailfast ELSE NoErr,
                    !.idx = IF Aborts(res) THEN @ ELSE @ + 1]>>]
    /\ UNCHANGED <<heap, heap0, failfast, testSteps, idx, phase, sessionVariables,
                   summary, run, lastResult, rq, bld>>

\* Run of a sub-testcase step from the return of sessionRunner.Start()
RunTestCaseReturn(p) ==
    /\ phase[p] = "child"
    /\ ~ChildRunning(p)
    /\ LET c == child[p][1]
           step == CurrentStep(p)
       IN  IF c.err # NoErr
           THEN AfterRun(p, StartFailedResult(step, c.err),
                         [summary[p] EXCEPT !.Success = FALSE],
                         sessionVariables[p])
           ELSE LET res == StartedResult(step, GetSummary(c))
                IN  AfterRun(p, res,
                             MergeSummary(summary[p], GetSummary(c)),
                             UpdateSessionVariables(sessionVariables[p], res.ExportVars))
    /\ UNCHANGED <<heap, heap0, failfast, testSteps, run, child, rq, bld>>

-----------------------------------------------------------------------------
(* Request step: runStepRequest *)

ErrParseUrl == "parse request url failed"
ErrSetupHooks == "run setup hooks failed"
ErrTeardownHooks == "run teardown hooks failed"
ErrDumpRequest == "dump request failed"
ErrDumpResponse == "dump response failed"
ErrDecode == "decode response body failed"
ErrResponseObject == "init ResponseObject error"

\* hook expressions, by the one variable each reads
HookRequest == "${setup($hrp_step_request)}"
HookResponse == "${teardown($hrp_step_response)}"
HookUnknown == "${hook($unknown)}"
Hooks == {HookRequest, HookResponse, HookUnknown}

HookReads(hook) ==
    IF hook = HookRequest THEN "hrp_step_request"
    ELSE IF hook = HookResponse THEN "hrp_step_response"
    ELSE "unknown"

\* parser.Parse(hook, scope) fails on a variable the scope does not bind
ParseHookFails(hook, scope) == HookReads(hook) \notin DOMAIN scope

HookLists == {<<>>} \cup SeqsUpTo(Hooks, MaxHooks)

\* validators: the response field checked and the expectation, a literal or
\* a variable reference
Validators ==
    { <<>>,
      <<[Check |-> "tok", Expect |-> "$tok"]>>,
      <<[Check |-> "tok", Expect |-> "e1"], [Check |-> "tok", Expect |-> "$tok"]>> }

\* &Request{Method: method, URL: url}
NewRequest(method, url) ==
    [Method |-> method, URL |-> url, Params |-> EmptyMap, Headers |-> EmptyMap,
     Cookies |-> EmptyMap, Body |-> <<>>, Timeout |-> 0,
     AllowRedirects |-> FALSE, Verify |-> FALSE]

\* the request steps runStepRequest is given
RequestSteps ==
    { [Name |-> "get", Variables |-> v,
       Request |-> NewRequest("GET", u),
       SetupHooks |-> sh, TeardownHooks |-> th,
       Extract |-> e, Validators |-> vs] :
        v \in {EmptyMap, [tok |-> "s"], [tmp |-> Unresolved]},
        u \in {"/u/1", "/u/$unknown"},
        sh \in HookLists, th \in HookLists,
        e \in {EmptyMap, [tok |-> "tok"]},
        vs \in Validators }

\* what the HTTP client can hand back: the document the body decodes to, the
\* declared length, the Content-Encoding, and whether the body is a
\* well-formed stream of that encoding, and whether it is a JSON document
Responses ==
    { [body |-> b, ContentLength |-> 7, Encoding |-> enc, wellFormed |-> w] :
        b \in {EmptyMap} \cup [{"tok"} -> ExtractValues],
        enc \in {"", "identity", "br", "gzip", "deflate"},
        w \in BOOLEAN }

\* the body reader of a response as the client hands it back
NetworkBody == "network stream"

\* brotli.NewReader, gzip.NewReader, zlib.NewReader over a reader
Decompressor(encoding, reader) == encoding \o "(" \o reader \o ")"

\* decodeResponseBody invalidating the content length for br as well
decodeResponseBodyBrUnknown(resp) ==
    IF resp.Encoding = "br"
    THEN [err |-> NoErr,
          resp |-> [resp EXCEPT !.wrapped = TRUE, !.ContentLength = -1,
                                !.Body = Decompressor("br", @)]]
    ELSE IF resp.Encoding \in {"gzip", "deflate"}
    THEN IF ~resp.wellFormed
         THEN [err |-> ErrDecode, resp |-> [resp EXCEPT !.Body = "nil"]]
         ELSE [err |-> NoErr,
               resp |-> [resp EXCEPT !.wrapped = TRUE, !.ContentLength = -1,
                                     !.Body = Decompressor(resp.Encoding, @)]]
    ELSE [err |-> NoErr, resp |-> resp]

\* decodeResponseBody: the error, and the response with the body reader
\* wrapped and the content length invalidated
decodeResponseBody(resp) ==
    IF resp.Encoding = "br"
    THEN [err |-> NoErr,
          resp |-> [resp EXCEPT !.wrapped = TRUE, !.Body = Decompressor("br", @)]]
    ELSE IF resp.Encoding \in {"gzip", "deflate"}
    THEN IF ~resp.wellFormed
         THEN [err |-> ErrDecode, resp |-> [resp EXCEPT !.Body = "nil"]]
         ELSE [err |-> NoErr,
               resp |-> [resp EXCEPT !.wrapped = TRUE, !.ContentLength = -1,
                                     !.Body = Decompressor(resp.Encoding, @)]]
    ELSE [err |-> NoErr, resp |-> resp]

\* newResponseObject reads the whole body: a stream that does not decode fails
ResponseObjectFails(resp) == resp.wrapped /\ ~resp.wellFormed

\* respObj.Extract(extractors): each name bound to the value at its path,
\* null where the document lacks the path
Extract(resp, extractors) ==
    [n \in DOMAIN extractors |->
        IF extractors[n] \in DOMAIN resp.body THEN resp.body[extractors[n]] ELSE Null]

\* the parsed expectation of a validator under the scope
Expected(validator, scope) ==
    IF validator.Expect = "$tok"
    THEN (IF "tok" \in DOMAIN scope THEN scope["tok"] ELSE Unresolved)
    ELSE validator.Expect

Actual(validator, resp) ==
    IF validator.Check \in DOMAIN resp.body THEN resp.body[validator.Check] ELSE Null

\* respObj.Validate(validators, scope): every entry evaluated in order and
\* recorded; an error when one fails
ValidationResults(resp, validators, scope) ==
    [i \in DOMAIN validators |->
        [Check |-> validators[i].Check,
         Expect |-> Expected(validators[i], scope),
         Actual |-> Actual(validators[i], resp),
         Pass |-> Actual(validators[i], resp) = Expected(validators[i], scope)]]

Validate(resp, validators, scope) ==
    LET results == ValidationResults(resp, validators, scope)
    IN  [results |-> results,
         err |-> IF \E i \in DOMAIN results : ~results[i].Pass
                 THEN ErrValidation ELSE NoErr]

\* NewRequestResult with Success set from the start
NewRequestResultSucceeded(step) ==
    [Name |-> step.Name, StepType |-> stepTypeRequest, Success |-> TRUE,
     ContentSize |-> 0, Attachment |-> "", ExportVars |-> EmptyMap,
     Data |-> <<>>]

\* the StepResult runStepRequest starts from
NewRequestResult(step) ==
    [Name |-> step.Name, StepType |-> stepTypeRequest, Success |-> FALSE,
     ContentSize |-> 0, Attachment |-> "", ExportVars |-> EmptyMap,
     Data |-> <<>>]

\* newSessionData()
NewSessionData == [Success |-> FALSE, Validators |-> <<>>, Request |-> <<>>, Response |-> <<>>]

\* an optional entry of the mirror: absent for the zero value (omitempty)
OmitEmpty(value, zero) == IF value = zero THEN <<>> ELSE <<value>>

\* the mirror requestMap newRequestBuilder makes of the step's Request: the
\* Request marshalled to JSON and read back as a map
RequestMap(request) ==
    [method |-> request.Method, url |-> request.URL,
     params |-> OmitEmpty(request.Params, EmptyMap),
     headers |-> OmitEmpty(request.Headers, EmptyMap),
     cookies |-> OmitEmpty(request.Cookies, EmptyMap),
     body |-> request.Body,
     timeout |-> OmitEmpty(request.Timeout, 0),
     allow_redirects |-> OmitEmpty(request.AllowRedirects, FALSE),
     verify |-> OmitEmpty(request.Verify, FALSE)]

\* prepareUrlParams fails on a URL the parser cannot resolve
PrepareUrlFails(request, scope) == request.URL = "/u/$unknown"

-----------------------------------------------------------------------------
(* Request step: the requestBuilder *)

\* the variable a string is a reference to, if it is one
Reference(raw) ==
    IF raw = "$tok" THEN <<"tok">>
    ELSE IF raw = "$nothing" THEN <<"nothing">>
    ELSE IF raw = "$unknown" THEN <<"unknown">>
    ELSE <<>>

\* parser.ParseString: a reference is replaced by the value the scope binds,
\* and fails when the scope does not bind the name
ParseString(raw, scope) ==
    IF Reference(raw) = <<>> THEN [err |-> NoErr, val |-> raw]
    ELSE IF Reference(raw)[1] \in DOMAIN scope
         THEN [err |-> NoErr, val |-> scope[Reference(raw)[1]]]
         ELSE [err |-> "variable not found", val |-> raw]

\* parser.Parse of a mapping: every value parsed
ParseMap(raw, scope) ==
    [err |-> IF \E k \in DOMAIN raw : ParseString(raw[k], scope).err # NoErr
             THEN "variable not found" ELSE NoErr,
     val |-> [k \in DOMAIN raw |-> ParseString(raw[k], scope).val]]

\* parser.Parse of a body: strings and the values of a mapping are parsed, a
\* reference to a variable bound to null yields null, every other value is
\* handed back as it is
ParseBody(body, scope) ==
    IF body.kind = "string"
    THEN LET p == ParseString(body.val, scope)
         IN  [err |-> p.err,
              val |-> IF p.val = Null THEN [kind |-> "null", val |-> Null]
                      ELSE [kind |-> "string", val |-> p.val]]
    ELSE IF body.kind = "map"
    THEN LET p == ParseMap(body.val, scope)
         IN  [err |-> p.err, val |-> [kind |-> "map", val |-> p.val]]
    ELSE [err |-> NoErr, val |-> body]

\* the keys of a mapping, sorted (the names used as keys, in byte order)
SortedKeys(m) == SelectSeq(<<"a", "b", "q", "sid", "x">>, LAMBDA k : k \in DOMAIN m)

\* url.QueryEscape
QueryEscape(v) == IF v = "a b" THEN "a+b" ELSE v

RECURSIVE JoinPairs(_, _, _, _)
\* key<eq>value of the keys in order, joined by sep
JoinPairs(m, keys, eq, sep) ==
    IF keys = <<>> THEN ""
    ELSE m[Head(keys)].k \o eq \o m[Head(keys)].v
         \o (IF Tail(keys) = <<>> THEN "" ELSE sep)
         \o JoinPairs(m, Tail(keys), eq, sep)

\* url.Values.Encode of the values built from a mapping: sorted by key
Encode(m) ==
    JoinPairs([k \in DOMAIN m |-> [k |-> QueryEscape(k), v |-> QueryEscape(m[k])]],
              SortedKeys(m), "=", "&")

\* a value json.Marshal has no encoding for
Unmarshalable == "func()"

RECURSIVE JoinAll(_, _)
JoinAll(items, sep) ==
    IF items = <<>> THEN ""
    ELSE Head(items) \o (IF Tail(items) = <<>> THEN "" ELSE sep)
         \o JoinAll(Tail(items), sep)

\* json.Marshal of a mapping (keys sorted) or of a sequence, of strings
Marshal(data) ==
    IF Unmarshalable \in Range(data.val)
    THEN [err |-> "json: unsupported type", bytes |-> ""]
    ELSE IF data.kind = "map"
    THEN [err |-> NoErr,
          bytes |-> "{" \o JoinPairs([k \in DOMAIN data.val |->
                                        [k |-> "\"" \o k \o "\"",
                                         v |-> "\"" \o data.val[k] \o "\""]],
                                     SortedKeys(data.val), ":", ",") \o "}"]
    ELSE [err |-> NoErr,
          bytes |-> "[" \o JoinAll([i \in DOMAIN data.val |-> ("\"" \o data.val[i] \o "\"")], ",")
                    \o "]"]

\* textproto.CanonicalMIMEHeaderKey, applied by http.Header's methods
CanonicalHeaderKey(key) ==
    IF key = "content-type" THEN "Content-Type"
    ELSE IF key = "content-length" THEN "Content-Length"
    ELSE key

\* strings.HasPrefix(key, ":")
PseudoHeaders == {":authority", ":path"}

\* strconv.ParseInt(value, 10, 64): the number, or nothing on an error
ParseInt(value) ==
    IF value = "5" THEN <<5>>
    ELSE IF value = "9" THEN <<9>>
    ELSE IF value = "0" THEN <<0>>
    ELSE <<>>

JsonTypes == {"application/json", "application/json; charset=utf-8"}
FormTypes == {"application/x-www-form-urlencoded",
              "application/x-www-form-urlencoded; charset=utf-8"}
DefaultContentType == "application/json; charset=utf-8"

\* http.Header.Add, Get, Set
HeaderAdd(header, key, value) ==
    LET K == CanonicalHeaderKey(key)
    IN  [k \in DOMAIN header \cup {K} |->
            IF k # K THEN header[k]
            ELSE IF K \in DOMAIN header THEN Append(header[K], value)
            ELSE <<value>>]

HeaderGet(header, key) ==
    LET K == CanonicalHeaderKey(key)
    IN  IF K \in DOMAIN header THEN header[K][1] ELSE ""

HeaderSet(header, key, value) ==
    LET K == CanonicalHeaderKey(key)
    IN  [k \in DOMAIN header \cup {K} |-> IF k = K THEN <<value>> ELSE header[k]]

\* mergeMap(m, overriddenMap) with the arguments exchanged
mergeMapOverridden(m, overriddenMap) ==
    [k \in DOMAIN m \cup DOMAIN overriddenMap |->
        IF k \in DOMAIN overriddenMap THEN overriddenMap[k] ELSE m[k]]

\* mergeMap(m, overriddenMap): the entries of m, and those of overriddenMap
\* under the keys m lacks
mergeMap(m, overriddenMap) ==
    [k \in DOMAIN m \cup DOMAIN overriddenMap |->
        IF k \in DOMAIN m THEN m[k] ELSE overriddenMap[k]]

\* the orders a range over a map with these keys can take
Orderings(keys) ==
    {o \in [1..Cardinality(keys) -> keys] : Range(o) = keys}


\* buildURL(baseURL, url) for a relative url
buildURL(baseURL, url) == baseURL \o url

\* strings.IndexByte(rawUrl, '?') # -1, by the step's url
HasQuery(url) == url = "/u?x=1"

\* url.Parse fails, by the step's url: an invalid escape
UrlParseFails(url) == url = "/u/%zz"

\* the requestBuilder: the http.Request under construction and the mirror
newRequestBuilder(stepRequest) ==
    [req |-> [Method |-> stepRequest.Method, URL |-> "", Host |-> "",
              Header |-> EmptyMap, ContentLength |-> 0, Body |-> <<>>],
     requestMap |-> RequestMap(stepRequest)]

prepareUrlParams(rb, stepRequest, config, stepVariables) ==
    IF PrepareUrlFails(stepRequest, stepVariables)
    THEN [err |-> ErrParseUrl, rb |-> rb]
    ELSE LET rawUrl == buildURL(config.BaseURL, stepRequest.URL)
             params == ParseMap(stepRequest.Params, stepVariables)
             hasParams == stepRequest.Params # EmptyMap
         IN  IF hasParams /\ params.err # NoErr
             THEN [err |-> "parse request params failed", rb |-> rb]
             ELSE LET mirrored == IF hasParams
                                  THEN [rb EXCEPT !.requestMap.params = <<params.val>>]
                                  ELSE rb
                      withQuery ==
                        IF ~hasParams THEN rawUrl
                        ELSE rawUrl
                             \o (IF HasQuery(stepRequest.URL) THEN "&" ELSE "?")
                             \o Encode(params.val)
                  IN  IF UrlParseFails(stepRequest.URL)
                      THEN [err |-> "parse url failed", rb |-> mirrored]
                      ELSE [err |-> NoErr,
                            rb |-> [mirrored EXCEPT !.req.URL = withQuery,
                                                    !.req.Host = config.Host]]

\* the headers prepareHeaders parses: the step's, over the config's
MergedHeaders(stepRequest, config) ==
    IF config.Headers # EmptyMap
    THEN mergeMap(stepRequest.Headers, config.Headers)
    ELSE stepRequest.Headers

\* AddHeader without the test for pseudo header names
AddHeaderKeepingPseudo(req, key, value) ==
    LET added == [req EXCEPT !.Header = HeaderAdd(@, key, value)]
    IN  IF key \in {"Content-Length", "content-length"}
              /\ value # "" /\ ParseInt(value) # <<>>
        THEN [added EXCEPT !.ContentLength = ParseInt(value)[1]]
        ELSE added

\* one round of the loop over the parsed headers: a pseudo header name is
\* omitted, any other is added and, when it is Content-Length with a numeric
\* value, sets the content length
AddHeader(req, key, value) ==
    LET added == [req EXCEPT !.Header = HeaderAdd(@, key, value)]
    IN  IF key \in PseudoHeaders THEN req
        \* strings.EqualFold(key, "Content-Length")
        ELSE IF key \in {"Content-Length", "content-length"}
                   /\ value # "" /\ ParseInt(value) # <<>>
        THEN [added EXCEPT !.ContentLength = ParseInt(value)[1]]
        ELSE added

RECURSIVE AddHeaders(_, _, _)
\* the loop over the parsed headers, in the order the range takes
AddHeaders(req, headers, order) ==
    IF order = <<>> THEN req
    ELSE AddHeaders(AddHeader(req, Head(order), headers[Head(order)]),
                    headers, Tail(order))

\* http.Request.AddCookie: the pair joined to the Cookie header line
AddCookie(req, name, value) ==
    LET line == HeaderGet(req.Header, "Cookie")
        pair == name \o "=" \o value
    IN  [req EXCEPT !.Header =
            HeaderSet(@, "Cookie", IF line # "" THEN line \o "; " \o pair ELSE pair)]

RECURSIVE AddCookies(_, _, _, _)
\* the loop over the cookies, in the order the range takes: the error and the
\* request it leaves
AddCookies(req, cookies, order, stepVariables) ==
    IF order = <<>> THEN [err |-> NoErr, req |-> req]
    ELSE LET value == ParseString(cookies[Head(order)], stepVariables)
         IN  IF value.err # NoErr
             THEN [err |-> "parse cookie value failed", req |-> req]
             ELSE AddCookies(AddCookie(req, Head(order), value.val), cookies,
                             Tail(order), stepVariables)

\* the headers entry of the mirror: the first value of every header
MirrorHeaders(header) == [K \in DOMAIN header |-> header[K][1]]

prepareHeaders(rb, stepRequest, config, stepVariables, order) ==
    LET stepHeaders == MergedHeaders(stepRequest, config)
        headers == ParseMap(stepHeaders, stepVariables)
    IN  IF stepHeaders # EmptyMap /\ headers.err # NoErr
        THEN [err |-> "parse headers failed", rb |-> rb]
        ELSE LET withHeaders == AddHeaders(rb.req, headers.val, order.headers)
                 withCookies == AddCookies(withHeaders, stepRequest.Cookies,
                                           order.cookies, stepVariables)
             IN  IF withCookies.err # NoErr
                 THEN [err |-> withCookies.err,
                       rb |-> [rb EXCEPT !.req = withCookies.req]]
                 ELSE [err |-> NoErr,
                       rb |-> [rb EXCEPT
                                !.req = withCookies.req,
                                !.requestMap.headers =
                                    <<MirrorHeaders(withCookies.req.Header)>>]]

\* the kinds of body that pass the check made under an application/json type
JsonKinds == {"bool", "number", "string", "map", "slice", "null"}

\* prepareBody keeping a Content-Length that prepareHeaders adopted
SetBodyKeepingDeclared(rb, dataBytes) ==
    [rb EXCEPT !.req.Body = <<dataBytes>>,
               !.req.ContentLength = IF @ # 0 THEN @ ELSE Len(dataBytes)]

\* r.req.Body = io.NopCloser(bytes.NewReader(dataBytes)) and the length
SetBody(rb, dataBytes) ==
    [rb EXCEPT !.req.Body = <<dataBytes>>, !.req.ContentLength = Len(dataBytes)]

\* PostJson setting the default Content-Type over a declared one
PostJsonDefaultAlways(rb, data, contentType) ==
    LET m == Marshal(data)
    IN  IF m.err # NoErr THEN [err |-> m.err, rb |-> rb]
        ELSE [err |-> NoErr,
              rb |-> SetBody([rb EXCEPT !.req.Header =
                                HeaderSet(@, "Content-Type", DefaultContentType)],
                             m.bytes)]

\* the branch of a mapping or a sequence posted as JSON
PostJson(rb, data, contentType) ==
    LET m == Marshal(data)
    IN  IF m.err # NoErr THEN [err |-> m.err, rb |-> rb]
        ELSE [err |-> NoErr,
              rb |-> SetBody(IF contentType = ""
                             THEN [rb EXCEPT !.req.Header =
                                    HeaderSet(@, "Content-Type", DefaultContentType)]
                             ELSE rb,
                             m.bytes)]

prepareBody(rb, stepRequest, stepVariables) ==
    IF stepRequest.Body = <<>> THEN [err |-> NoErr, rb |-> rb]
    ELSE LET parsed == ParseBody(stepRequest.Body[1], stepVariables)
             data == parsed.val
             contentType == HeaderGet(rb.req.Header, "Content-Type")
             mirrored == [rb EXCEPT !.requestMap.body = <<data>>]
         IN  IF parsed.err # NoErr
             THEN [err |-> "parse request body failed", rb |-> rb]
             ELSE IF contentType \in JsonTypes /\ data.kind \notin JsonKinds
             THEN [err |-> "request body type inconsistent with Content-Type", rb |-> rb]
             ELSE IF data.kind = "map"
             THEN IF contentType \in FormTypes
                  THEN [err |-> NoErr, rb |-> SetBody(mirrored, Encode(data.val))]
                  ELSE PostJson(mirrored, data, contentType)
             ELSE IF data.kind = "slice"
             THEN PostJson(mirrored, data, contentType)
             ELSE IF data.kind \in {"string", "bytes", "buffer"}
             THEN [err |-> NoErr, rb |-> SetBody(mirrored, data.val)]
             ELSE [err |-> "unexpected request body type", rb |-> mirrored]

\* lines 270-286: the builder made and the three prepare calls, up to the
\* first that fails
Build(stepRequest, config, stepVariables, order) ==
    LET url == prepareUrlParams(newRequestBuilder(stepRequest), stepRequest,
                                config, stepVariables)
        headers == prepareHeaders(url.rb, stepRequest, config, stepVariables, order)
        body == prepareBody(headers.rb, stepRequest, stepVariables)
    IN  IF url.err # NoErr THEN url
        ELSE IF headers.err # NoErr THEN headers
        ELSE body

\* the orders the two ranges of prepareHeaders can take
RangeOrders(stepRequest, config) ==
    [headers : Orderings(DOMAIN MergedHeaders(stepRequest, config)),
     cookies : Orderings(DOMAIN stepRequest.Cookies)]

\* SetupScope binding the response object along with the request
SetupScopeWithResponse(stepVariables, step) ==
    mergeVariables([hrp_step_name |-> step.Name,
                    hrp_step_request |-> "requestMap",
                    hrp_step_response |-> "respObjMeta"], stepVariables)

\* add request object to step variables, could be used in setup hooks
SetupScope(stepVariables, step) ==
    mergeVariables([hrp_step_name |-> step.Name,
                    hrp_step_request |-> "requestMap"], stepVariables)

\* add response object to step variables, could be used in teardown hooks
TeardownScope(stepVariables) ==
    mergeVariables([hrp_step_response |-> "respObjMeta"], stepVariables)

\* WriteScope with the assignments made on the step's own Variables map
WriteScopeThroughStep(s, scope) ==
    [s EXCEPT !.stepVariables = scope, !.step.Variables = scope]

\* stepVariables[name] = value: the assignment writes the map the local
\* stepVariables references, the one MergeStepVariables returned; the map
\* step.Variables holds is another one
WriteScope(s, scope) == [s EXCEPT !.stepVariables = scope]

\* HooksDone leaving the loop one hook early
HooksDoneEarly(hooks, i) == i >= Len(hooks)

\* a loop over hooks is over when its index has passed the last hook
HooksDone(hooks, i) == i > Len(hooks)

\* the scope Validate is given: step variables merged with the extraction
ValidateScope(stepVariables, extractMapping) ==
    mergeVariables(stepVariables, extractMapping)

\* a deferred call closing whatever resp.Body holds when the function returns
ClosedAtReturnCurrent(deferred, resp) ==
    IF deferred = <<>> THEN {} ELSE {resp[1].Body}

\* defer resp.Body.Close(): the reader held by resp.Body when the defer
\* statement ran is the one closed at the return
ClosedAtReturn(deferred, resp) == Range(deferred)

\* the function's return: the deferred handlers run, last registered first:
\* resp.Body.Close() when a response was received, then the attachment
Return(s, err) ==
    [s EXCEPT
        !.pc = "done",
        !.err = err,
        !.closed = ClosedAtReturn(s.deferred, s.resp),
        !.bodyClosed = (NetworkBody \in ClosedAtReturn(s.deferred, s.resp)),
        !.stepResult.Attachment = IF err # NoErr THEN err ELSE @]

\* AfterHook going on to the next hook whatever parser.Parse returned
AfterHookIgnoringFailure(s, failed, err) == [s EXCEPT !.i = @ + 1]

\* the body of a hook loop after parser.Parse: the function returns the
\* wrapped error, or the loop goes on to the next hook
AfterHook(s, failed, err) ==
    IF failed THEN Return(s, err) ELSE [s EXCEPT !.i = @ + 1]

\* lines 245-264: the StepResult, the deferred handler, MergeStepVariables
RqMergeVariables ==
    /\ rq.pc = "start"
    /\ LET m == MergeStepVariables(rq.session, ParentConfig.Variables,
                                   rq.step.Variables)
           s == [rq EXCEPT !.stepResult = NewRequestResult(rq.step),
                           !.given = <<rq.step>>]
       IN  rq' = IF m.err # NoErr
                 THEN Return(s, m.err)
                 ELSE [s EXCEPT !.pc = "build", !.stepVariables = m.vars]
    /\ UNCHANGED <<sessionVars, bld>>

\* lines 266-290: the request is built, and mirrored into the scope
RqBuild ==
    /\ rq.pc = "build"
    /\ \E order \in RangeOrders(rq.step.Request, rq.config) :
         LET b == Build(rq.step.Request, rq.config, rq.stepVariables, order)
             s == [rq EXCEPT !.req = <<b.rb.req>>,
                             !.requestMap = <<b.rb.requestMap>>]
         IN  rq' = IF b.err # NoErr
                   THEN Return(s, b.err)
                   ELSE WriteScope([s EXCEPT !.pc = "setup",
                                             !.i = 1,
                                             !.sessionData = NewSessionData],
                                   SetupScope(rq.stepVariables, rq.step))
    /\ UNCHANGED <<sessionVars, bld>>

\* lines 292-298: one setup hook
RqSetupHook ==
    /\ rq.pc = "setup"
    /\ ~HooksDone(rq.step.SetupHooks, rq.i)
    /\ LET hook == rq.step.SetupHooks[rq.i]
           s == [rq EXCEPT !.trace = Append(@, [phase |-> "setup", n |-> rq.i]),
                           !.hookScopes = Append(@, [phase |-> "setup",
                                                     hook |-> hook,
                                                     scope |-> rq.stepVariables])]
       IN  rq' = AfterHook(s, ParseHookFails(hook, rq.stepVariables), ErrSetupHooks)
    /\ UNCHANGED <<sessionVars, bld>>

\* lines 300-313: the request is printed and sent
RqDoRequest ==
    /\ rq.pc = "setup"
    /\ HooksDone(rq.step.SetupHooks, rq.i)
    /\ \/ /\ rq.logOn
          /\ rq' = Return(rq, ErrDumpRequest)
       \/ LET s == [rq EXCEPT !.trace = Append(@, [phase |-> "request", n |-> 0])]
          IN  \/ rq' = Return(s, ErrDoRequest)
              \/ \E resp \in Responses :
                    rq' = [s EXCEPT
                            !.pc = "decode",
                            !.resp = <<[body |-> resp.body,
                                        ContentLength |-> resp.ContentLength,
                                        Encoding |-> resp.Encoding,
                                        wellFormed |-> resp.wellFormed,
                                        wrapped |-> FALSE,
                                        Body |-> NetworkBody]>>,
                            !.received = <<resp>>,
                            !.deferred = <<NetworkBody>>]
    /\ UNCHANGED <<sessionVars, bld>>

\* lines 314-337: the body is decoded, the response printed, the response
\* object made and bound in the scope
RqDecode ==
    /\ rq.pc = "decode"
    /\ LET d == decodeResponseBody(rq.resp[1])
           s == [rq EXCEPT !.resp = <<d.resp>>, !.decoded = <<d.err>>]
       IN  IF d.err # NoErr
           THEN rq' = Return(s, d.err)
           ELSE \/ /\ rq.logOn
                   /\ rq' = Return(s, ErrDumpResponse)
                \/ rq' = IF ResponseObjectFails(d.resp)
                         THEN Return(s, ErrResponseObject)
                         ELSE WriteScope([s EXCEPT !.pc = "teardown", !.i = 1],
                                         TeardownScope(rq.stepVariables))
    /\ UNCHANGED <<sessionVars, bld>>

\* lines 339-345: one teardown hook
RqTeardownHook ==
    /\ rq.pc = "teardown"
    /\ ~HooksDone(rq.step.TeardownHooks, rq.i)
    /\ LET hook == rq.step.TeardownHooks[rq.i]
           s == [rq EXCEPT !.trace = Append(@, [phase |-> "teardown", n |-> rq.i]),
                           !.hookScopes = Append(@, [phase |-> "teardown",
                                                     hook |-> hook,
                                                     scope |-> rq.stepVariables])]
       IN  rq' = AfterHook(s, ParseHookFails(hook, rq.stepVariables),
                           ErrTeardownHooks)
    /\ UNCHANGED <<sessionVars, bld>>

\* lines 347-356: the session data, the extraction, the scope overridden
RqExtract ==
    /\ rq.pc = "teardown"
    /\ HooksDone(rq.step.TeardownHooks, rq.i)
    /\ LET extractMapping == Extract(rq.resp[1], rq.step.Extract)
       IN  rq' = [rq EXCEPT
                    !.pc = "validate",
                    !.trace = Append(@, [phase |-> "extract", n |-> 0]),
                    !.sessionData.Request = rq.requestMap,
                    !.sessionData.Response = <<rq.resp[1].body>>,
                    !.extractMapping = <<extractMapping>>,
                    !.scopeBefore = rq.stepVariables,
                    !.stepResult.ExportVars = extractMapping,
                    !.stepVariables = ValidateScope(@, extractMapping)]
    /\ UNCHANGED <<sessionVars, bld>>

\* lines 358-368: validation, and the StepResult filled
RqValidate ==
    /\ rq.pc = "validate"
    /\ LET v == Validate(rq.resp[1], rq.step.Validators, rq.stepVariables)
           sd == [rq.sessionData EXCEPT
                    !.Validators = v.results,
                    !.Success = IF v.err = NoErr THEN TRUE ELSE @]
           s == [rq EXCEPT
                    !.trace = Append(@, [phase |-> "validate", n |-> 0]),
                    !.sessionData = sd,
                    !.stepResult.Success = IF v.err = NoErr THEN TRUE ELSE @,
                    !.stepResult.ContentSize = rq.resp[1].ContentLength,
                    !.stepResult.Data = <<sd>>]
       IN  rq' = Return(s, v.err)
    /\ UNCHANGED <<sessionVars, bld>>

NextRequest ==
    \/ RqMergeVariables
    \/ RqBuild
    \/ RqSetupHook
    \/ RqDoRequest
    \/ RqDecode
    \/ RqTeardownHook
    \/ RqExtract
    \/ RqValidate

-----------------------------------------------------------------------------
(* Step builders: NewStep(name) and the fluent calls on the builders *)

\* The builder types are named by strings; each value of a type holds the
\* pointer to the one TStep.

Methods == {"GET", "HEAD", "POST", "PUT", "DELETE", "OPTIONS", "PATCH"}

\* &TStep{Name: name, Variables: make(map[string]interface{})}
NewTStep(name) ==
    [Name |-> name, Variables |-> EmptyMap, SetupHooks |-> <<>>,
     TeardownHooks |-> <<>>, Request |-> <<>>, TestCase |-> NilRef,
     API |-> <<>>, Transaction |-> <<>>, ThinkTime |-> <<>>,
     Extract |-> EmptyMap, Validators |-> <<>>, Export |-> <<>>]

\* the payload fields of a TStep that are set
Payloads(step) ==
    {f \in {"Request", "API", "Transaction", "ThinkTime"} : step[f] # <<>>}
    \cup (IF step.TestCase # NilRef THEN {"TestCase"} ELSE {})

\* fmt.Sprintf("%v %s", method, url)
Sprintf(method, url) == method \o " " \o url

\* Name() of the three request builders and of the sub-testcase builder
StepRequestWithOptionalArgsName(step) ==
    IF step.Name # "" THEN step.Name
    ELSE Sprintf(step.Request[1].Method, step.Request[1].URL)

StepRequestExtractionName(step) == step.Name

StepRequestValidationName(step) ==
    IF step.Name # "" THEN step.Name
    ELSE Sprintf(step.Request[1].Method, step.Request[1].URL)

StepTestCaseWithOptionalArgsName(step) ==
    IF step.Name # "" THEN step.Name
    ELSE IF step.TestCase \in Refs THEN heap[step.TestCase].Config.Name
    ELSE ""

\* the builder types of src/ that implement IStep
StepBuilders ==
    {"StepRequestWithOptionalArgs", "StepRequestExtraction", "StepRequestValidation",
     "StepTestCaseWithOptionalArgs"}

NameOf(b, step) ==
    IF b = "StepRequestWithOptionalArgs" THEN StepRequestWithOptionalArgsName(step)
    ELSE IF b = "StepRequestExtraction" THEN StepRequestExtractionName(step)
    ELSE IF b = "StepRequestValidation" THEN StepRequestValidationName(step)
    ELSE StepTestCaseWithOptionalArgsName(step)

\* no builder at work
BldIdle ==
    [pc |-> "idle", step |-> <<>>, held |-> {}, calls |-> 0,
     added |-> EmptyMap, name |-> <<>>, last |-> <<>>]

\* a call on a held builder of type b
Holds(b) == bld.pc = "building" /\ b \in bld.held /\ bld.calls < MaxCalls

\* the call leaves the TStep as step and hands back a builder of type b;
\* last remembers the call, the TStep and the builders held before it
Returns(call, b, step) ==
    /\ bld' = [bld EXCEPT !.step = step, !.held = @ \cup {b}, !.calls = @ + 1,
                          !.last = <<[call |-> call, before |-> bld.step,
                                      held |-> bld.held]>>]
    /\ UNCHANGED <<sessionVars, rq>>

WithVariables(variables) ==
    /\ Holds("StepRequest")
    /\ Returns("WithVariables", "StepRequest", [bld.step EXCEPT !.Variables = variables])

SetupHook(hook) ==
    /\ Holds("StepRequest")
    /\ Returns("SetupHook", "StepRequest", [bld.step EXCEPT !.SetupHooks = Append(@, hook)])

\* GET, HEAD, POST, PUT, DELETE, OPTIONS, PATCH
RequestMethod(method, url) ==
    /\ Holds("StepRequest")
    /\ Returns("RequestMethod", "StepRequestWithOptionalArgs",
               [bld.step EXCEPT !.Request = <<NewRequest(method, url)>>])

CallRefCase(tc) ==
    /\ Holds("StepRequest")
    /\ Returns("CallRefCase", "StepTestCaseWithOptionalArgs",
               [bld.step EXCEPT !.TestCase = tc])

CallRefAPI(api) ==
    /\ Holds("StepRequest")
    /\ Returns("CallRefAPI", "StepAPIWithOptionalArgs", [bld.step EXCEPT !.API = <<api>>])

StartTransaction(name) ==
    /\ Holds("StepRequest")
    /\ Returns("StartTransaction", "StepTransaction",
               [bld.step EXCEPT
                    !.Transaction = <<[Name |-> name, Type |-> "start"]>>])

EndTransaction(name) ==
    /\ Holds("StepRequest")
    /\ Returns("EndTransaction", "StepTransaction",
               [bld.step EXCEPT
                    !.Transaction = <<[Name |-> name, Type |-> "end"]>>])

SetThinkTime(time) ==
    /\ Holds("StepRequest")
    /\ Returns("SetThinkTime", "StepThinkTime",
               [bld.step EXCEPT !.ThinkTime = <<[Time |-> time]>>])

\* a setter of StepRequestWithOptionalArgs leaving the Request as request
SetsRequest(call, request) ==
    Returns(call, "StepRequestWithOptionalArgs",
            [bld.step EXCEPT !.Request = <<request>>])

SetVerify(verify) ==
    /\ Holds("StepRequestWithOptionalArgs")
    /\ SetsRequest("SetVerify", [bld.step.Request[1] EXCEPT !.Verify = verify])

SetTimeout(timeout) ==
    /\ Holds("StepRequestWithOptionalArgs")
    /\ SetsRequest("SetTimeout", [bld.step.Request[1] EXCEPT !.Timeout = timeout])

\* TODO in the source: the step is left as it is
SetProxies ==
    /\ Holds("StepRequestWithOptionalArgs")
    /\ Returns("SetProxies", "StepRequestWithOptionalArgs", bld.step)

SetAllowRedirects(allowRedirects) ==
    /\ Holds("StepRequestWithOptionalArgs")
    /\ SetsRequest("SetAllowRedirects",
                   [bld.step.Request[1] EXCEPT !.AllowRedirects = allowRedirects])

\* SetAuth storing the credentials in the headers
SetAuthInHeaders ==
    /\ Holds("StepRequestWithOptionalArgs")
    /\ SetsRequest("SetAuth", [bld.step.Request[1] EXCEPT
                                !.Headers = [Authorization |-> "Basic dTpw"]])

\* TODO in the source: the step is left as it is
SetAuth ==
    /\ Holds("StepRequestWithOptionalArgs")
    /\ Returns("SetAuth", "StepRequestWithOptionalArgs", bld.step)

WithParams(params) ==
    /\ Holds("StepRequestWithOptionalArgs")
    /\ SetsRequest("WithParams", [bld.step.Request[1] EXCEPT !.Params = params])

WithHeaders(headers) ==
    /\ Holds("StepRequestWithOptionalArgs")
    /\ SetsRequest("WithHeaders", [bld.step.Request[1] EXCEPT !.Headers = headers])

WithCookies(cookies) ==
    /\ Holds("StepRequestWithOptionalArgs")
    /\ SetsRequest("WithCookies", [bld.step.Request[1] EXCEPT !.Cookies = cookies])

WithBody(body) ==
    /\ Holds("StepRequestWithOptionalArgs")
    /\ SetsRequest("WithBody", [bld.step.Request[1] EXCEPT !.Body = <<body>>])

TeardownHook(hook) ==
    /\ Holds("StepRequestWithOptionalArgs")
    /\ Returns("TeardownHook", "StepRequestWithOptionalArgs",
               [bld.step EXCEPT !.TeardownHooks = Append(@, hook)])

\* StepRequestWithOptionalArgs.Validate()
ValidateFromRequest ==
    /\ Holds("StepRequestWithOptionalArgs")
    /\ Returns("ValidateFromRequest", "StepRequestValidation", bld.step)

\* StepRequestWithOptionalArgs.Extract(): s.step.Extract = make(map[string]string)
ExtractFromRequest ==
    /\ Holds("StepRequestWithOptionalArgs")
    /\ Returns("ExtractFromRequest", "StepRequestExtraction",
               [bld.step EXCEPT !.Extract = EmptyMap])

\* s.step.Extract[varName] = jmesPath; added remembers the pair
WithJmesPath(jmesPath, varName) ==
    /\ Holds("StepRequestExtraction")
    /\ bld' = [bld EXCEPT
                !.step.Extract = [n \in DOMAIN @ \cup {varName} |->
                                    IF n = varName THEN jmesPath ELSE @[n]],
                !.added = [n \in DOMAIN @ \cup {varName} |->
                                    IF n = varName THEN jmesPath ELSE @[n]],
                !.calls = @ + 1,
                !.last = <<[call |-> "WithJmesPath", before |-> bld.step,
                            held |-> bld.held]>>]
    /\ UNCHANGED <<sessionVars, rq>>

\* StepRequestExtraction.Validate()
ValidateFromExtraction ==
    /\ Holds("StepRequestExtraction")
    /\ Returns("ValidateFromExtraction", "StepRequestValidation", bld.step)

\* AssertEqual and its siblings: a Validator with the comparator's name appended
AssertWith(assert, jmesPath, expected) ==
    /\ Holds("StepRequestValidation")
    /\ Returns("AssertWith", "StepRequestValidation",
               [bld.step EXCEPT
                    !.Validators = Append(@, [Check |-> jmesPath, Comparator |-> assert,
                                              Expect |-> expected])])

\* StepTestCaseWithOptionalArgs.TeardownHook
TestCaseTeardownHook(hook) ==
    /\ Holds("StepTestCaseWithOptionalArgs")
    /\ Returns("TestCaseTeardownHook", "StepTestCaseWithOptionalArgs",
               [bld.step EXCEPT !.TeardownHooks = Append(@, hook)])

\* StepTestCaseWithOptionalArgs.Export
Export(names) ==
    /\ Holds("StepTestCaseWithOptionalArgs")
    /\ Returns("Export", "StepTestCaseWithOptionalArgs",
               [bld.step EXCEPT !.Export = @ \o names])

\* the step is handed over as an IStep held in a builder of type b, and asked
\* its name
CallName(b) ==
    /\ bld.pc = "building"
    /\ b \in bld.held \cap StepBuilders
    /\ bld' = [bld EXCEPT !.pc = "named",
                          !.name = <<[of |-> b, is |-> NameOf(b, bld.step)]>>]
    /\ UNCHANGED <<sessionVars, rq>>

NextBuilder ==
    \/ WithVariables([tok |-> "s"])
    \/ \E hook \in {HookRequest, HookUnknown} : SetupHook(hook)
    \/ \E method \in Methods : RequestMethod(method, "/u/1")
    \/ CallRefCase(TC)
    \/ CallRefAPI("api")
    \/ StartTransaction("t")
    \/ EndTransaction("t")
    \/ SetThinkTime(1)
    \/ \E verify \in BOOLEAN : SetVerify(verify)
    \/ SetTimeout(30)
    \/ SetProxies
    \/ \E allowRedirects \in BOOLEAN : SetAllowRedirects(allowRedirects)
    \/ SetAuth
    \/ WithParams([q |-> "1"])
    \/ WithHeaders([Accept |-> "text/plain"])
    \/ WithCookies([sid |-> "1"])
    \/ WithBody([kind |-> "string", val |-> "raw"])
    \/ \E hook \in {HookResponse, HookUnknown} : TeardownHook(hook)
    \/ ValidateFromRequest
    \/ ExtractFromRequest
    \/ \E jmesPath \in {"body.tok", "headers.tok"}, varName \in {"tok", "tmp"} :
            WithJmesPath(jmesPath, varName)
    \/ ValidateFromExtraction
    \/ \E assert \in {"equals", "greater_than"} : AssertWith(assert, "status_code", "200")
    \/ TestCaseTeardownHook(HookResponse)
    \/ Export(<<"tok">>)
    \/ \E b \in StepBuilders : CallName(b)

-----------------------------------------------------------------------------
(* The request level is idle in the session specifications *)

RqIdle ==
    [pc |-> "idle", step |-> <<>>, session |-> EmptyMap, logOn |-> FALSE,
     stepVariables |-> EmptyMap, scopeBefore |-> EmptyMap, i |-> 0, trace |-> <<>>,
     hookScopes |-> <<>>, given |-> <<>>,
     stepResult |-> <<>>, sessionData |-> <<>>, requestMap |-> <<>>,
     config |-> [BaseURL |-> "http://h", Host |-> "h", Headers |-> EmptyMap], req |-> <<>>,
     resp |-> <<>>, received |-> <<>>, deferred |-> <<>>, decoded |-> <<>>,
     closed |-> {}, extractMapping |-> <<>>, bodyClosed |-> FALSE, err |-> NoErr]

Programs == SeqsUpTo(StepChoices, MaxSteps)

InitSession(programs) ==
    /\ \E c \in LoadedConfigs :
            heap = [r \in Refs |-> [Config |-> c, TestSteps |-> ChildTestSteps]]
    /\ heap0 = heap
    /\ failfast \in BOOLEAN
    /\ testSteps \in programs
    /\ idx = [p \in Runners |-> 1]
    /\ phase = [p \in Runners |-> "loop"]
    /\ sessionVariables = [p \in Runners |-> EmptyMap]
    /\ summary = [p \in Runners |-> NewSummary]
    /\ run = [p \in Runners |-> <<>>]
    /\ child = [p \in Runners |-> <<>>]
    /\ lastResult = [p \in Runners |-> <<>>]
    /\ rq = RqIdle
    /\ bld = BldIdle

\* one SessionRunner at work, the other with nothing to run
Init == InitSession({ [p \in Runners |-> IF p = 1 THEN prog ELSE <<>>] :
                        prog \in Programs })

\* two sibling SessionRunners, each executing a testcase of one step; the
\* sub-testcase steps all reference the same loaded TestCase
InitConcurrent == InitSession([Runners -> { <<t>> : t \in StepChoices }])

Next ==
    \E p \in Runners :
        \/ RunRequestStep(p)
        \/ RunTestCaseMergeFailed(p)
        \/ RunTestCasePrepare(p)
        \/ NewSessionRunner(p)
        \/ ChildStep(p)
        \/ RunTestCaseReturn(p)

Spec == Init /\ [][Next]_vars

\* one call runStepRequest(r, step): the runner's session variables, its
\* logging switch and the step are the inputs
InitRequest ==
    /\ heap = [r \in Refs |->
                [Config |-> [Name |-> "child", Variables |-> EmptyMap, Export |-> <<>>],
                 TestSteps |-> ChildTestSteps]]
    /\ heap0 = heap
    /\ failfast = FALSE
    /\ testSteps = [p \in Runners |-> <<>>]
    /\ idx = [p \in Runners |-> 1]
    /\ phase = [p \in Runners |-> "loop"]
    /\ sessionVariables = [p \in Runners |-> EmptyMap]
    /\ summary = [p \in Runners |-> NewSummary]
    /\ run = [p \in Runners |-> <<>>]
    /\ child = [p \in Runners |-> <<>>]
    /\ lastResult = [p \in Runners |-> <<>>]
    /\ \E step \in RequestSteps, session \in {EmptyMap, [tok |-> "old"]},
          logOn \in BOOLEAN :
            rq = [RqIdle EXCEPT !.pc = "start", !.step = step,
                                !.session = session, !.logOn = logOn]
    /\ bld = BldIdle

SpecRequest == InitRequest /\ [][NextRequest]_vars

SpecConcurrent == InitConcurrent /\ [][Next]_vars

\* no SessionRunner at work: one loaded TestCase, nothing to run
SessionIdle ==
    /\ heap = [r \in Refs |->
                [Config |-> [Name |-> "child", Variables |-> EmptyMap, Export |-> <<>>],
                 TestSteps |-> ChildTestSteps]]
    /\ heap0 = heap
    /\ failfast = FALSE
    /\ testSteps = [p \in Runners |-> <<>>]
    /\ idx = [p \in Runners |-> 1]
    /\ phase = [p \in Runners |-> "loop"]
    /\ sessionVariables = [p \in Runners |-> EmptyMap]
    /\ summary = [p \in Runners |-> NewSummary]
    /\ run = [p \in Runners |-> <<>>]
    /\ child = [p \in Runners |-> <<>>]
    /\ lastResult = [p \in Runners |-> <<>>]

\* NewStep(name): a StepRequest builder holding a fresh TStep
InitBuilder ==
    /\ SessionIdle
    /\ rq = RqIdle
    /\ \E name \in {"", "n"} :
            bld = [BldIdle EXCEPT !.pc = "building", !.step = NewTStep(name),
                                  !.held = {"StepRequest"}]

SpecBuilder == InitBuilder /\ [][NextBuilder]_vars

\* the bodies a step declares: none, a mapping, a sequence, a string, bytes,
\* a bytes.Buffer, a bool, a number
Bodies ==
    << <<>>,
       <<[kind |-> "map", val |-> [a |-> "1", b |-> "a b"]]>>,
       <<[kind |-> "map", val |-> [a |-> "$tok"]]>>,
       <<[kind |-> "map", val |-> [a |-> Unmarshalable]]>>,
       <<[kind |-> "slice", val |-> <<"1", "2">>]>>,
       <<[kind |-> "string", val |-> "raw"]>>,
       <<[kind |-> "string", val |-> "$nothing"]>>,
       <<[kind |-> "bytes", val |-> "raw"]>>,
       <<[kind |-> "buffer", val |-> "raw"]>>,
       <<[kind |-> "bool", val |-> "true"]>>,
       <<[kind |-> "number", val |-> "1"]>> >>

\* the headers a step declares
StepHeaders ==
    { EmptyMap,
      "Content-Type" :> "application/json",
      "Content-Type" :> "application/x-www-form-urlencoded; charset=utf-8",
      "content-type" :> "text/html" @@ "content-length" :> "5",
      ":path" :> "5" @@ "X-Tok" :> "$tok",
      "Content-Length" :> "abc" }

\* the headers a config declares
ConfigHeaders ==
    { EmptyMap,
      "Content-Type" :> "text/plain" @@ "X-Env" :> "c",
      "Content-Length" :> "9" @@ ":authority" :> "h" }

\* one call runStepRequest(r, step) on a POST step with params, headers,
\* cookies and a body, under a config with or without headers
InitBuild ==
    /\ SessionIdle
    /\ bld = BldIdle
    /\ \E v \in {EmptyMap, [tok |-> "s", nothing |-> Null]},
          u \in {"/u/1", "/u?x=1", "/u/%zz", "/u/$unknown"},
          params \in {EmptyMap, [q |-> "$tok"]},
          headers \in StepHeaders,
          cookies \in {EmptyMap, [sid |-> "$tok"]},
          i \in DOMAIN Bodies,
          configHeaders \in ConfigHeaders,
          logOn \in BOOLEAN :
            rq = [RqIdle EXCEPT
                    !.pc = "start",
                    !.step = [Name |-> "post", Variables |-> v,
                              Request |-> [NewRequest("POST", u) EXCEPT
                                            !.Params = params, !.Headers = headers,
                                            !.Cookies = cookies, !.Body = Bodies[i]],
                              SetupHooks |-> <<HookRequest>>,
                              TeardownHooks |-> <<HookResponse>>,
                              Extract |-> EmptyMap, Validators |-> <<>>],
                    !.logOn = logOn,
                    !.config.Headers = configHeaders]

SpecBuild == InitBuild /\ [][NextRequest]_vars

-----------------------------------------------------------------------------
(* Claims on the sub-testcase step *)

\* runner p is where a step's Run has just returned to Start
Returned(p) ==
    /\ lastResult[p] # <<>>
    /\ \/ phase[p] = "loop" /\ idx[p] = lastResult[p][1].at + 1
       \/ phase[p] = "aborted" /\ idx[p] = lastResult[p][1].at
LastRes(p) == lastResult[p][1].res
LastStep(p) == testSteps[p][lastResult[p][1].at]
ReturnedTestCase(p) == Returned(p) /\ LastRes(p).StepType = stepTypeTestCase
\* ... whose child session was started and has ended
ReturnedFromChild(p) ==
    ReturnedTestCase(p) /\ child[p] # <<>> /\ LastRes(p).err # ErrMergeVariables

\* C2: whenever a step's Run returns a non-nil error, the returned StepResult
\* has Success = false and Attachment equal to the text of the error.
C2_ErrorFillsAttachment ==
    \A p \in Runners :
        (Returned(p) /\ LastRes(p).err # NoErr)
            => (LastRes(p).Success = FALSE /\ LastRes(p).Attachment = LastRes(p).err)

\* C3: after Run of a sub-testcase step returns, the TestCase the step
\* references has the Config (Name, Variables, Export) it had before.
C3_RunKeepsReferencedTestCase ==
    \A p \in Runners : ReturnedTestCase(p) => heap[TC].Config = heap0[TC].Config

\* C4: with two SessionRunners on the same loaded TestCase, the config each
\* child session is created with holds the overrides of its own step only.
C4_ChildSeesOwnOverridesOnly ==
    \A p \in Runners :
        (phase[p] = "child")
            => child[p][1].config = extendWithTestCase(CurrentStep(p), heap0[TC].Config)

C6_FailedChildStillExports ==
    \A p \in Runners :
        (ReturnedFromChild(p) /\ LastRes(p).err # NoErr)
            => /\ summary[p].Success = FALSE
               /\ \A n \in Range(LastStep(p).Export) \cap DOMAIN FinalScope(child[p][1]) :
                    /\ n \in DOMAIN sessionVariables[p]
                    /\ sessionVariables[p][n] = FinalScope(child[p][1])[n]

\* C7: a sub-testcase step whose child session holds a failed record is
\* reported failed: StepResult.Success and the parent summary's Success false.
C7_ChildFailurePropagates ==
    \A p \in Runners :
        (ReturnedFromChild(p) /\ child[p][1].summary.Stat.Failures > 0)
            => (LastRes(p).Success = FALSE /\ summary[p].Success = FALSE)

NonContainer(records) ==
    Cardinality({i \in DOMAIN records : records[i].StepType # stepTypeTestCase})

\* C8: every sub-testcase step execution, child succeeded or failed, leaves the
\* child's records in the parent's Records and its counts in the statistics;
\* and Total = Successes + Failures = number of non-container records.
C8_ChildAlwaysAggregated ==
    \A p \in Runners :
        /\ summary[p].Stat.Total = summary[p].Stat.Successes + summary[p].Stat.Failures
        /\ summary[p].Stat.Total = NonContainer(summary[p].Records)
        /\ ReturnedFromChild(p) =>
              LET own == child[p][1].summary.Records
                  all == summary[p].Records
              IN  /\ Len(all) >= Len(own)
                  /\ SubSeq(all, Len(all) - Len(own) + 1, Len(all)) = own
                  /\ summary[p].Stat.Failures >= child[p][1].summary.Stat.Failures

\* C9: the config variables of the TestCase handed to the child session hold
\* the merged scope MergeStepVariables computed (session, case, step).
C9_ChildGetsMergedScope ==
    \A p \in Runners :
        (phase[p] = "child")
            => \A n \in DOMAIN run[p][1].stepVariables :
                 /\ n \in DOMAIN child[p][1].config.Variables
                 /\ child[p][1].config.Variables[n] = run[p][1].stepVariables[n]

-----------------------------------------------------------------------------
(* Claims on runStepRequest *)

IsPrefix(a, b) == Len(a) <= Len(b) /\ a = SubSeq(b, 1, Len(a))

\* the phases of a complete execution, in the order of the spec
PhaseOrder(step) ==
    [i \in 1..Len(step.SetupHooks) |-> [phase |-> "setup", n |-> i]]
    \o <<[phase |-> "request", n |-> 0]>>
    \o [i \in 1..Len(step.TeardownHooks) |-> [phase |-> "teardown", n |-> i]]
    \o <<[phase |-> "extract", n |-> 0], [phase |-> "validate", n |-> 0]>>

\* C1: the phases of runStepRequest happen in the order setup hooks (as
\* declared), HTTP call, teardown hooks (as declared), extraction, validation:
\* what has happened so far is always a prefix of that order.
C1_PhasesInOrder ==
    rq.pc # "idle" => IsPrefix(rq.trace, PhaseOrder(rq.step))

\* C1 witness: an execution with setup and teardown hooks reached validation.
C1_Witness ==
    /\ rq.pc = "done"
    /\ Len(rq.step.SetupHooks) >= 2
    /\ Len(rq.step.TeardownHooks) >= 2
    /\ rq.trace = PhaseOrder(rq.step)

\* C10: every name bound both in the step's merged variables and in the
\* extraction mapping is bound to the extracted value in the scope Validate
\* is given.
C10_ExtractedShadowsStepVariables ==
    (rq.pc \in {"validate", "done"} /\ rq.extractMapping # <<>>)
        => \A n \in DOMAIN rq.scopeBefore \cap DOMAIN rq.extractMapping[1] :
                rq.stepVariables[n] = rq.extractMapping[1][n]

\* what runStepRequest returns has one of the shapes of RequestOutcomes
RequestOutcomeShape ==
    rq.pc = "done" =>
        \/ rq.stepResult.Success /\ rq.err = NoErr
        \/ ~rq.stepResult.Success /\ rq.err = ErrValidation
             /\ rq.stepResult.Attachment = rq.err
        \/ ~rq.stepResult.Success /\ rq.err \notin {NoErr, ErrValidation}
             /\ rq.stepResult.Attachment = rq.err
             /\ rq.stepResult.ExportVars = EmptyMap

-----------------------------------------------------------------------------
(* Claims on the step builders *)

\* C11: once a builder call has set a payload, the TStep has exactly one of the
\* payloads Request, TestCase, API, Transaction, ThinkTime set, whatever
\* builder calls follow, calls on builders held from earlier included.
C11_ExactlyOnePayload ==
    (bld.pc # "idle" /\ Payloads(bld.step) # {})
        => Cardinality(Payloads(bld.step)) = 1

\* the name a step of builder type b derives when its own name is empty
DerivedName(b, step) ==
    IF b = "StepTestCaseWithOptionalArgs"
    THEN heap[step.TestCase].Config.Name
    ELSE Sprintf(step.Request[1].Method, step.Request[1].URL)

\* C12: Name() of every step builder returns the step's name when it is
\* non-empty and the derived name otherwise ("<METHOD> <URL>" for the request
\* builders, the referenced case's config name for the sub-testcase builder);
\* it is never empty for a request step.
C12_NameIsGivenOrDerived ==
    bld.pc = "named"
        => LET b == bld.name[1].of
               step == bld.step
           IN  /\ bld.name[1].is =
                    (IF step.Name # "" THEN step.Name ELSE DerivedName(b, step))
               /\ (b # "StepTestCaseWithOptionalArgs") => bld.name[1].is # ""

\* C17: step.Extract holds every varName -> JMESPath pair a WithJmesPath call
\* added (the latest path for a repeated varName), whatever builder calls
\* followed, a second Extract() on the held request builder included.
C17_ExtractorsAccumulate ==
    bld.pc # "idle"
        => \A n \in DOMAIN bld.added :
                n \in DOMAIN bld.step.Extract /\ bld.step.Extract[n] = bld.added[n]

-----------------------------------------------------------------------------
(* Claims on the requestBuilder *)

\* the errors of the three prepare calls
UrlErrors == {ErrParseUrl, "parse request params failed", "parse url failed"}
HeaderErrors == {"parse headers failed", "parse cookie value failed"}
BodyErrors ==
    {"parse request body failed",
     "request body type inconsistent with Content-Type",
     "json: unsupported type", "unexpected request body type"}

\* the build was attempted, and got past prepareHeaders / the body's parsing /
\* the whole of it
Built == rq.req # <<>>
HeadersPrepared ==
    Built /\ (rq.pc = "done" => rq.err \notin UrlErrors \cup HeaderErrors)
BodyParsed ==
    HeadersPrepared /\ rq.step.Request.Body # <<>>
        /\ (rq.pc = "done" => rq.err # "parse request body failed")
BuildSucceeded ==
    HeadersPrepared /\ (rq.pc = "done" => rq.err \notin BodyErrors)

\* the scope the request was built in, the headers declared, and their values
BuildScope ==
    MergeStepVariables(rq.session, ParentConfig.Variables, rq.step.Variables).vars
StepDeclared == ParseMap(rq.step.Request.Headers, BuildScope).val
ConfigDeclared == ParseMap(rq.config.Headers, BuildScope).val
Declared(K) ==
    {StepDeclared[k] : k \in {j \in DOMAIN StepDeclared : CanonicalHeaderKey(j) = K}}
    \cup {ConfigDeclared[k] :
            k \in {j \in DOMAIN ConfigDeclared \ DOMAIN StepDeclared :
                        CanonicalHeaderKey(j) = K}}
DeclaredTypes == Declared("Content-Type")
ParsedData == ParseBody(rq.step.Request.Body[1], BuildScope).val
SentBody == rq.req[1].Body
SentType == HeaderGet(rq.req[1].Header, "Content-Type")
IsForm == DeclaredTypes # {} /\ DeclaredTypes \subseteq FormTypes
IsJson == DeclaredTypes # {} /\ DeclaredTypes \subseteq JsonTypes

\* a mapping under a form type is sent URL-encoded; a mapping or a sequence
\* under another or no type is sent as JSON when json.Marshal encodes it, the
\* default type set only when none was declared
EncodedByKind ==
    /\ (ParsedData.kind = "map" /\ IsForm)
            => (rq.err \notin BodyErrors /\ SentBody = <<Encode(ParsedData.val)>>)
    /\ (ParsedData.kind \in {"map", "slice"} /\ ~IsForm
            /\ Marshal(ParsedData).err = NoErr)
            => /\ rq.err \notin BodyErrors
               /\ SentBody = <<Marshal(ParsedData).bytes>>
               /\ IF DeclaredTypes = {} THEN SentType = DefaultContentType
                  ELSE SentType \in DeclaredTypes

\* every kind but mapping, sequence, string, bytes is an error and no body
OtherKindsFail ==
    (ParsedData.kind \notin {"map", "slice", "string", "bytes", "buffer"})
        => (rq.pc = "done" /\ rq.err \in BodyErrors /\ SentBody = <<>>)

\* C14 as claimed: prepareBody encodes by the kind of the parsed body and the
\* Content-Type: a mapping under a form type is a URL-encoded form; a mapping
\* or sequence under another or no type is JSON, the default type set only
\* when none was present; a string or byte sequence is sent raw; every other
\* kind is an error and no body.
C14_BodyEncodedByKind ==
    BodyParsed =>
        /\ EncodedByKind
        /\ (ParsedData.kind \in {"string", "bytes", "buffer"})
                => (rq.err \notin BodyErrors /\ SentBody = <<ParsedData.val>>)
        /\ OtherKindsFail

\* C14 as amended: as claimed, but a string is sent raw under every type, bytes
\* are sent raw unless the Content-Type starts with application/json, which
\* rejects them with an error and no body, and a mapping or sequence that
\* json.Marshal cannot encode is an error and no body.
C14_BodyEncodedByKindAndCheck ==
    BodyParsed =>
        /\ EncodedByKind
        /\ (ParsedData.kind \in {"map", "slice"} /\ ~IsForm
                /\ Marshal(ParsedData).err # NoErr)
                => (rq.pc = "done" /\ rq.err = "json: unsupported type" /\ SentBody = <<>>)
        /\ (ParsedData.kind = "string")
                => (rq.err \notin BodyErrors /\ SentBody = <<ParsedData.val>>)
        /\ (ParsedData.kind \in {"bytes", "buffer"})
                => IF IsJson
                   THEN rq.pc = "done"
                            /\ rq.err = "request body type inconsistent with Content-Type"
                            /\ SentBody = <<>>
                   ELSE rq.err \notin BodyErrors /\ SentBody = <<ParsedData.val>>
        /\ OtherKindsFail

\* C14 witness: a mapping was sent as JSON under a declared text type, which
\* was kept.
C14_Witness ==
    /\ BodyParsed /\ BuildSucceeded
    /\ ParsedData.kind = "map"
    /\ DeclaredTypes = {"text/plain"}
    /\ SentBody = <<"{\"a\":\"1\",\"b\":\"a b\"}">>
    /\ SentType = "text/plain"

\* the numeric Content-Length values declared
DeclaredLengths ==
    {ParseInt(v)[1] : v \in {w \in Declared("Content-Length") : ParseInt(w) # <<>>}}

\* C15: a request built with a body has the byte length of the encoded body as
\* its Content-Length, whatever Content-Length was declared; a declared numeric
\* Content-Length is the length of a request built without a body.
C15_ContentLengthOfBody ==
    BuildSucceeded =>
        IF rq.step.Request.Body # <<>>
        THEN SentBody # <<>> /\ rq.req[1].ContentLength = Len(SentBody[1])
        ELSE /\ SentBody = <<>>
             /\ IF DeclaredLengths = {} THEN rq.req[1].ContentLength = 0
                ELSE rq.req[1].ContentLength \in DeclaredLengths

\* C15 witness: a body of 3 bytes was sent under a declared length of 5.
C15_Witness ==
    /\ BuildSucceeded
    /\ DeclaredLengths = {5}
    /\ SentBody = <<"raw">>
    /\ rq.req[1].ContentLength = 3

\* C19: every key that both the step's and the config's headers hold has the
\* step's value in the realized request, and every value in the realized
\* request comes from the step or from a config key the step does not hold
\* (the Cookie line and the default Content-Type apart).
C19_StepHeadersWin ==
    HeadersPrepared =>
        LET header == rq.req[1].Header
        IN  /\ \A k \in (DOMAIN StepDeclared \cap DOMAIN ConfigDeclared) \ PseudoHeaders :
                /\ CanonicalHeaderKey(k) \in DOMAIN header
                /\ StepDeclared[k] \in Range(header[CanonicalHeaderKey(k)])
            /\ \A K \in DOMAIN header \ {"Cookie"} :
                \A v \in Range(header[K]) :
                    \/ v \in Declared(K)
                    \/ K = "Content-Type" /\ v = DefaultContentType
                            /\ DeclaredTypes = {}

\* C19 witness: step and config both declared Content-Type, with different
\* values, and the request was built.
C19_Witness ==
    /\ BuildSucceeded
    /\ "Content-Type" \in DOMAIN StepDeclared \cap DOMAIN ConfigDeclared
    /\ StepDeclared["Content-Type"] # ConfigDeclared["Content-Type"]
    /\ rq.req[1].Header["Content-Type"] = <<StepDeclared["Content-Type"]>>

\* C20: the mirror requestMap that the setup hooks see and SessionData records
\* has every header of the realized request in its headers entry, a default
\* Content-Type included, and the parsed params and the parsed body.
C20_MirrorEqualsRequest ==
    (BuildSucceeded /\ rq.pc # "done")
        => /\ rq.requestMap[1].headers = <<MirrorHeaders(rq.req[1].Header)>>
           /\ rq.step.Request.Params # EmptyMap
                => rq.requestMap[1].params
                        = <<ParseMap(rq.step.Request.Params, BuildScope).val>>
           /\ rq.step.Request.Body # <<>>
                => rq.requestMap[1].body = <<ParsedData>>

-----------------------------------------------------------------------------
(* Claims on the response *)

\* C13: when runStepRequest returns after the HTTP client handed back a
\* response (success, decode failure, response-object failure, teardown-hook
\* failure, validation failure), the body stream received from the network
\* has been closed.
C13_NetworkBodyClosed ==
    (rq.pc = "done" /\ rq.received # <<>>) => NetworkBody \in rq.closed

\* C13 witness: a return after the body reader had been replaced by a
\* decompressor, and a return on a failed decompressor construction.
C13_Witness ==
    /\ rq.pc = "done"
    /\ rq.received # <<>>
    /\ rq.resp[1].Body # NetworkBody
    /\ rq.err \in {NoErr, ErrDecode, ErrResponseObject, ErrTeardownHooks, ErrValidation}

\* C16: decodeResponseBody sets the content length to unknown (-1) exactly
\* when Content-Encoding is gzip or deflate and the decompressor was
\* constructed, and otherwise leaves it as received; for an encoding other
\* than br, gzip, deflate it leaves the body reader as received; it returns an
\* error exactly when the construction of a decompressor fails.
C16_LengthUnknownOnlyForGzipDeflate ==
    rq.decoded # <<>>
        => LET received == rq.received[1]
               resp == rq.resp[1]
               constructed == received.Encoding \in {"gzip", "deflate"}
                                /\ received.wellFormed
           IN  /\ resp.ContentLength = IF constructed THEN -1
                                       ELSE received.ContentLength
               /\ received.Encoding \notin {"br", "gzip", "deflate"}
                    => resp.Body = NetworkBody
               /\ (rq.decoded[1] # NoErr)
                    <=> (received.Encoding \in {"gzip", "deflate"}
                            /\ ~received.wellFormed)

\* C16 witness: a br response decoded with its content length kept, the body
\* reader replaced.
C16_Witness ==
    /\ rq.decoded = <<NoErr>>
    /\ rq.received[1].Encoding = "br"
    /\ rq.resp[1].Body = Decompressor("br", NetworkBody)
    /\ rq.resp[1].ContentLength = rq.received[1].ContentLength

\* runStepRequest got as far as the validation
Validated ==
    rq.trace # <<>> /\ rq.trace[Len(rq.trace)].phase = "validate"

\* C18: when runStepRequest reaches validation, StepResult.Success and
\* SessionData.Success are true if and only if Validate returned no error,
\* StepResult.Data is the SessionData holding the recorded validator results,
\* StepResult.ExportVars is the extraction mapping and ContentSize is the
\* response content length after decoding; on every path that returns before
\* validation, and until validation, Success is false.
C18_SuccessIffValidated ==
    rq.stepResult # <<>>
        => IF Validated
           THEN /\ rq.stepResult.Success = (rq.err = NoErr)
                /\ rq.sessionData.Success = (rq.err = NoErr)
                /\ rq.err \in {NoErr, ErrValidation}
                /\ rq.stepResult.Data = <<rq.sessionData>>
                /\ rq.sessionData.Validators
                     = ValidationResults(rq.resp[1], rq.step.Validators,
                                         rq.stepVariables)
                /\ (rq.err = NoErr)
                     = (\A i \in DOMAIN rq.sessionData.Validators :
                            rq.sessionData.Validators[i].Pass)
                /\ rq.stepResult.ExportVars = rq.extractMapping[1]
                /\ rq.stepResult.ExportVars = Extract(rq.resp[1], rq.step.Extract)
                /\ rq.stepResult.ContentSize = rq.resp[1].ContentLength
           ELSE rq.stepResult.Success = FALSE

\* C18 witness: a validation that failed on a gzip response, after an
\* extraction.
C18_Witness ==
    /\ rq.pc = "done"
    /\ Validated
    /\ rq.err = ErrValidation
    /\ rq.stepResult.Success = FALSE
    /\ rq.stepResult.ExportVars # EmptyMap
    /\ rq.stepResult.ContentSize = -1

-----------------------------------------------------------------------------
(* Claims on the scope of the hooks *)

\* C21: the scope given to every setup hook binds hrp_step_name and
\* hrp_step_request and does not bind hrp_step_response; the scope given to
\* every teardown hook binds all three; and hrp_step_response is bound only
\* after the HTTP call was answered and the body decoding succeeded.
C21_HookScopes ==
    /\ \A k \in DOMAIN rq.hookScopes :
          LET h == rq.hookScopes[k]
          IN  /\ {"hrp_step_name", "hrp_step_request"} \subseteq DOMAIN h.scope
              /\ h.scope["hrp_step_name"] = rq.step.Name
              /\ h.scope["hrp_step_request"] = "requestMap"
              /\ h.phase = "setup" => "hrp_step_response" \notin DOMAIN h.scope
              /\ h.phase = "teardown" => "hrp_step_response" \in DOMAIN h.scope
    /\ "hrp_step_response" \in DOMAIN rq.stepVariables
          => /\ rq.received # <<>>
             /\ rq.decoded = <<NoErr>>
             /\ [phase |-> "request", n |-> 0] \in Range(rq.trace)

\* C21 witness: an execution that answered with a compressed body ran setup
\* hooks and teardown hooks.
C21_Witness ==
    /\ rq.pc = "done"
    /\ rq.received # <<>> /\ rq.received[1].Encoding = "gzip"
    /\ \E k \in DOMAIN rq.hookScopes : rq.hookScopes[k].phase = "setup"
    /\ \E k \in DOMAIN rq.hookScopes : rq.hookScopes[k].phase = "teardown"
    /\ Len(rq.hookScopes) = Len(rq.step.SetupHooks) + Len(rq.step.TeardownHooks)

\* the parsed headers whose name is a pseudo header name
DeclaredPseudo ==
    (DOMAIN StepDeclared \cup DOMAIN ConfigDeclared) \cap PseudoHeaders

\* C22: once prepareHeaders has returned, no pseudo header name (a name
\* beginning with ':') is in the realized request's header set or in the
\* headers entry of the mirror requestMap, whether the step's headers or the
\* config's declared it, and the content length of a request without a body
\* is a length that a header of another name declared, or zero.
C22_NoPseudoHeaders ==
    HeadersPrepared =>
        /\ DOMAIN rq.req[1].Header \cap PseudoHeaders = {}
        /\ rq.requestMap[1].headers # <<>>
        /\ DOMAIN rq.requestMap[1].headers[1] \cap PseudoHeaders = {}
        /\ rq.step.Request.Body = <<>>
              => rq.req[1].ContentLength \in DeclaredLengths \cup {0}
        /\ (rq.step.Request.Body = <<>> /\ DeclaredLengths = {})
              => rq.req[1].ContentLength = 0

\* C22 witness: the step declared :path with a numeric value and the config
\* :authority, and a request without a body reached the HTTP call.
C22_Witness ==
    /\ BuildSucceeded
    /\ rq.received # <<>>
    /\ DeclaredPseudo = {":path", ":authority"}
    /\ ParseInt(StepDeclared[":path"]) # <<>>
    /\ rq.step.Request.Body = <<>>
    /\ "X-Tok" \in DOMAIN rq.req[1].Header
    /\ rq.req[1].ContentLength = 9

-----------------------------------------------------------------------------
(* Claims on extendWithTestCase *)

\* runner p is where extendWithTestCase has just returned
Prepared(p) == phase[p] = "prepared"
ConfigBefore(p) == run[p][1].before
ConfigAfter(p) == heap[run[p][1].copiedTestCase].Config

\* C23: when a sub-testcase step prepares its child, every variable name that
\* the step and the referenced testcase's config both define has the step's
\* value in the child config, the names of one side only keep their value;
\* the child config's name is the step's name when that is non-empty and is
\* left alone otherwise; and the child config's export list holds the names
\* of the step's export list and of the config's own list, each once.
C23_StepOverridesChildConfig ==
    \A p \in Runners :
        Prepared(p) =>
            LET step == CurrentStep(p)
                before == ConfigBefore(p)
                after == ConfigAfter(p)
            IN  /\ DOMAIN after.Variables
                      = DOMAIN step.Variables \cup DOMAIN before.Variables
                /\ \A n \in DOMAIN step.Variables :
                        after.Variables[n] = step.Variables[n]
                /\ \A n \in DOMAIN before.Variables \ DOMAIN step.Variables :
                        after.Variables[n] = before.Variables[n]
                /\ after.Name = IF step.Name # "" THEN step.Name ELSE before.Name
                /\ Range(after.Export) = Range(step.Export) \cup Range(before.Export)
                /\ Len(after.Export) = Cardinality(Range(after.Export))

\* C23 witness: an unnamed step and the config defined the same variable with
\* different values, and a named step with an export list met a config with
\* an export list of its own holding another name.
C23_Witness ==
    \E p \in Runners :
        /\ Prepared(p)
        /\ idx[p] = 2
        /\ CurrentStep(p).Name = ""
        /\ ConfigAfter(p).Name = testSteps[p][1].Name
        /\ "tok" \in DOMAIN CurrentStep(p).Variables \cap DOMAIN ConfigBefore(p).Variables
        /\ CurrentStep(p).Variables["tok"] # ConfigBefore(p).Variables["tok"]
        /\ ConfigAfter(p).Variables["tok"] = CurrentStep(p).Variables["tok"]
        /\ Range(testSteps[p][1].Export) \ Range(heap0[TC].Config.Export) # {}
        /\ Range(heap0[TC].Config.Export) \ Range(testSteps[p][1].Export) # {}
        /\ Len(ConfigAfter(p).Export) = 2

-----------------------------------------------------------------------------
(* Claims on a failing hook *)

\* the phases that have happened
Phases == {rq.trace[k].phase : k \in DOMAIN rq.trace}

\* C24: a hook whose evaluation fails is the last thing runStepRequest does:
\* it returns the hook error of that loop, no later hook is evaluated, a
\* failing setup hook leaves the HTTP call and the teardown hooks undone, and
\* after a failing hook of either kind neither extraction nor validation has
\* run and StepResult.ExportVars is empty.
C24_HookFailureStops ==
    \A k \in DOMAIN rq.hookScopes :
        LET h == rq.hookScopes[k]
        IN  ParseHookFails(h.hook, h.scope) =>
                /\ rq.pc = "done"
                /\ k = Len(rq.hookScopes)
                /\ rq.trace[Len(rq.trace)].phase = h.phase
                /\ Phases \cap {"extract", "validate"} = {}
                /\ rq.extractMapping = <<>>
                /\ rq.stepResult.ExportVars = EmptyMap
                /\ rq.stepResult.Success = FALSE
                /\ rq.sessionData.Validators = <<>>
                /\ h.phase = "setup"
                      => /\ rq.err = ErrSetupHooks
                         /\ Phases = {"setup"}
                         /\ rq.received = <<>>
                /\ h.phase = "teardown" => rq.err = ErrTeardownHooks

\* C24 witness: the first of two teardown hooks failed on a step with an
\* extractor and validators, after the setup hooks and a response that
\* holds the extracted field.
C24_Witness ==
    /\ rq.pc = "done"
    /\ rq.err = ErrTeardownHooks
    /\ Len(rq.step.SetupHooks) >= 1
    /\ Len(rq.step.TeardownHooks) = 2
    /\ rq.trace[Len(rq.trace)] = [phase |-> "teardown", n |-> 1]
    /\ rq.step.Extract # EmptyMap
    /\ rq.step.Validators # <<>>
    /\ "tok" \in DOMAIN rq.received[1].body
    /\ rq.stepResult.ExportVars = EmptyMap

-----------------------------------------------------------------------------
(* Claims on the step descriptor *)

\* the names runStepRequest binds for the hooks
HookVariables == {"hrp_step_name", "hrp_step_request", "hrp_step_response"}

\* C25: from the call of runStepRequest to its return on any path the TStep
\* it was given has the Name, Variables, Request, SetupHooks, TeardownHooks,
\* Extract and Validators it had at the call; the hook variables and the
\* extracted values are bound in the local scope only.
C25_StepUnchanged ==
    rq.given # <<>> =>
        /\ rq.step.Name = rq.given[1].Name
        /\ rq.step.Variables = rq.given[1].Variables
        /\ rq.step.Request = rq.given[1].Request
        /\ rq.step.SetupHooks = rq.given[1].SetupHooks
        /\ rq.step.TeardownHooks = rq.given[1].TeardownHooks
        /\ rq.step.Extract = rq.given[1].Extract
        /\ rq.step.Validators = rq.given[1].Validators
        /\ DOMAIN rq.step.Variables \cap HookVariables = {}
        /\ rq.extractMapping # <<>>
              => \A n \in DOMAIN rq.extractMapping[1] \ DOMAIN rq.given[1].Variables :
                    n \notin DOMAIN rq.step.Variables

\* C25 witness: a complete execution bound the three hook variables in the
\* scope and extracted a value under the name of a step variable that holds
\* another value.
C25_Witness ==
    /\ rq.pc = "done"
    /\ rq.err = NoErr
    /\ HookVariables \subseteq DOMAIN rq.stepVariables
    /\ rq.extractMapping # <<>>
    /\ "tok" \in DOMAIN rq.extractMapping[1] \cap DOMAIN rq.step.Variables
    /\ rq.extractMapping[1]["tok"] # rq.step.Variables["tok"]
    /\ rq.stepResult.ExportVars = rq.extractMapping[1]
    /\ rq.step = rq.given[1]

-----------------------------------------------------------------------------
(* Claims on the setters of the builders *)

\* the field of the Request each setter of StepRequestWithOptionalArgs owns
OwnField ==
    [SetVerify |-> "Verify", SetTimeout |-> "Timeout",
     SetAllowRedirects |-> "AllowRedirects", WithParams |-> "Params",
     WithHeaders |-> "Headers", WithCookies |-> "Cookies", WithBody |-> "Body"]

\* the list of the TStep each appending call owns
OwnList ==
    [SetupHook |-> "SetupHooks", TeardownHook |-> "TeardownHooks",
     AssertWith |-> "Validators"]

\* the TStep agrees with the one before the last call outside the fields F
SameStepBut(F) ==
    \A f \in DOMAIN bld.step \ F : bld.step[f] = bld.last[1].before[f]

\* the Request agrees with the one before the last call outside the fields F
SameRequestBut(F) ==
    /\ bld.step.Request # <<>> /\ bld.last[1].before.Request # <<>>
    /\ \A f \in DOMAIN bld.step.Request[1] \ F :
            bld.step.Request[1][f] = bld.last[1].before.Request[1][f]

\* C26: SetProxies and SetAuth leave the TStep as it was and hand back the
\* builder they were called on; every other setter of
\* StepRequestWithOptionalArgs leaves every field of the TStep and of the
\* Request but its own as it was; SetupHook, TeardownHook and the Assert
\* calls leave their list one entry longer with the earlier entries in
\* their places, and everything else as it was.
C26_SettersFrame ==
    bld.last # <<>> =>
        LET call == bld.last[1].call
            before == bld.last[1].before
        IN  /\ call \in {"SetProxies", "SetAuth"}
                  => bld.step = before /\ bld.held = bld.last[1].held
            /\ call \in DOMAIN OwnField
                  => /\ SameStepBut({"Request"})
                     /\ SameRequestBut({OwnField[call]})
                     /\ bld.held = bld.last[1].held
            /\ call \in DOMAIN OwnList
                  => /\ SameStepBut({OwnList[call]})
                     /\ Len(bld.step[OwnList[call]]) = Len(before[OwnList[call]]) + 1
                     /\ SubSeq(bld.step[OwnList[call]], 1, Len(before[OwnList[call]]))
                            = before[OwnList[call]]
                     /\ bld.held = bld.last[1].held

\* C26 witness: SetAuth was called on a step whose Request already carries
\* headers, after a setup hook was added.
C26_Witness ==
    /\ bld.last # <<>>
    /\ bld.last[1].call = "SetAuth"
    /\ bld.step.SetupHooks # <<>>
    /\ bld.step.Request # <<>>
    /\ bld.step.Request[1].Headers # EmptyMap
    /\ bld.step = bld.last[1].before

====
